---- MODULE Spec2Model ----
(***************************************************************************)
(* Model of examples/utilities/computation_utilities.py: the Object class  *)
(* (initial conditions -> coefficients of a*t^2 + b*t + c) and the         *)
(* SecondOrderEq class (discriminant, roots, time and position of ground   *)
(* contact).                                                               *)
(*                                                                         *)
(* numpy float64 values are modelled exactly: a finite value is an element *)
(* (n + s*sqrt(r))/d of the quadratic field generated by the square root   *)
(* the code takes, and the IEEE special values nan, inf, -inf are kept as  *)
(* separate kinds.  Rounding error is therefore abstracted away ("within   *)
(* floating-point tolerance" becomes equality), while division by zero,    *)
(* square roots of negative numbers and comparisons with nan behave as     *)
(* numpy does.  A raised Python exception is a value of its own kind that  *)
(* propagates through every later operation of the same call.              *)
(* Inputs are integer valued, so every zero is +0.0.                       *)
(*                                                                         *)
(* The arithmetic is written as functions (fAdd[x, y], npAdd[x, y]) so     *)
(* that every operand is a value when the operation is applied, as in      *)
(* Python, where operands are evaluated before the call.                   *)
(***************************************************************************)
EXTENDS Integers, Sequences, FiniteSets, TLC

VARIABLES obj, eq, ret

vars == <<obj, eq, ret>>

\* ---------------------------------------------------------------- bounds
MaxZ == 2      \* pos[2], collision_condition[2] range over 0..MaxZ
MaxV == 2      \* vel[2] ranges over -MaxV..MaxV
MaxG == 2      \* g[2] ranges over -MaxG..MaxG

\* ------------------------------------------------------ float64 scalars
Abs(i) == IF i < 0 THEN -i ELSE i

GCD[x \in Nat, y \in Nat] == IF y = 0 THEN x ELSE GCD[y, x % y]

IsSquare(r) == \E k \in 0..r : k * k = r

ISqrt(r) == CHOOSE k \in 0..r : k * k = r

Special(kind) == [k |-> kind, n |-> 0, s |-> 0, r |-> 0, d |-> 1]

NaN == Special("nan")

PInf == Special("inf")

NInf == Special("-inf")

IndexError == Special("IndexError")

ZeroDivisionError == Special("ZeroDivisionError")

\* the finite value (n + s*sqrt(r))/d in canonical form; d # 0, r >= 0
Fin[n \in Int, s \in Int, r \in Nat, d \in Int] ==
  LET sq == IsSquare(r)
      n0 == IF sq THEN n + s * ISqrt(r) ELSE n
      s0 == IF sq THEN 0 ELSE s
      r0 == IF s0 = 0 THEN 0 ELSE r
      q  == GCD[GCD[Abs(n0), Abs(s0)], Abs(d)]
      sg == IF d < 0 THEN -1 ELSE 1
  IN [k |-> "fin", n |-> sg * (n0 \div q), s |-> sg * (s0 \div q),
      r |-> r0, d |-> Abs(d) \div q]

\* the float64 values and raised exceptions
Float ==
  [k : {"fin", "nan", "inf", "-inf", "IndexError", "ZeroDivisionError"},
   n : Int, s : Int, r : Nat, d : Nat]

Num(i) == Fin[i, 0, 0, 1]

IsErr(x) == x.k \notin {"fin", "nan", "inf", "-inf"}

IsFin(x) == x.k = "fin"

IsInf(x) == x.k \in {"inf", "-inf"}

\* sign (-1, 0, 1) of a finite or infinite value
Sgn(x) ==
  IF x.k = "inf" THEN 1
  ELSE IF x.k = "-inf" THEN -1
  ELSE LET sn == IF x.n > 0 THEN 1 ELSE IF x.n < 0 THEN -1 ELSE 0
           ss == IF x.s > 0 /\ x.r > 0 THEN 1
                 ELSE IF x.s < 0 /\ x.r > 0 THEN -1 ELSE 0
       IN IF ss = 0 THEN sn
          ELSE IF sn = 0 \/ sn = ss THEN ss
          ELSE IF x.n * x.n > x.s * x.s * x.r THEN sn
          ELSE IF x.n * x.n < x.s * x.s * x.r THEN ss
          ELSE 0

Signed(sign) == IF sign > 0 THEN PInf ELSE NInf

\* unary minus
fNeg[x \in Float] ==
  IF IsErr(x) \/ x.k = "nan" THEN x
  ELSE IF IsInf(x) THEN Signed(-Sgn(x))
  ELSE Fin[-x.n, -x.s, x.r, x.d]

\* x + y; two finite operands lie in the same quadratic field
fAdd[x \in Float, y \in Float] ==
  IF IsErr(x) THEN x
  ELSE IF IsErr(y) THEN y
  ELSE IF x.k = "nan" \/ y.k = "nan" THEN NaN
  ELSE IF IsInf(x) /\ IsInf(y) THEN (IF x.k = y.k THEN x ELSE NaN)
  ELSE IF IsInf(x) THEN x
  ELSE IF IsInf(y) THEN y
  ELSE Fin[x.n * y.d + y.n * x.d, x.s * y.d + y.s * x.d,
           IF x.s # 0 THEN x.r ELSE y.r, x.d * y.d]

fSub[x \in Float, y \in Float] == fAdd[x, fNeg[y]]

\* x * y
fMul[x \in Float, y \in Float] ==
  IF IsErr(x) THEN x
  ELSE IF IsErr(y) THEN y
  ELSE IF x.k = "nan" \/ y.k = "nan" THEN NaN
  ELSE IF IsInf(x) \/ IsInf(y)
       THEN (IF Sgn(x) = 0 \/ Sgn(y) = 0 THEN NaN ELSE Signed(Sgn(x) * Sgn(y)))
  ELSE LET rr == IF x.s # 0 THEN x.r ELSE y.r
       IN Fin[x.n * y.n + x.s * y.s * rr, x.n * y.s + x.s * y.n,
              rr, x.d * y.d]

\* x / y as Python divides floats: a zero divisor raises
TrueDivide_raising(x, y) ==
  IF IsErr(x) THEN x
  ELSE IF IsErr(y) THEN y
  ELSE IF x.k = "nan" \/ y.k = "nan" THEN NaN
  ELSE IF IsInf(x) /\ IsInf(y) THEN NaN
  ELSE IF IsInf(y) THEN Num(0)
  ELSE IF Sgn(y) = 0 THEN ZeroDivisionError
  ELSE IF IsInf(x) THEN Signed(Sgn(x) * Sgn(y))
  ELSE Fin[x.n * y.d, x.s * y.d, x.r, x.d * y.n]

\* x / y as numpy divides float64 values; a finite divisor is rational
\* (the code only ever divides by 2*a)
TrueDivide(x, y) ==
  IF IsErr(x) THEN x
  ELSE IF IsErr(y) THEN y
  ELSE IF x.k = "nan" \/ y.k = "nan" THEN NaN
  ELSE IF IsInf(x) /\ IsInf(y) THEN NaN
  ELSE IF IsInf(y) THEN Num(0)
  ELSE IF Sgn(y) = 0
       THEN (IF Sgn(x) = 0 THEN NaN ELSE Signed(Sgn(x)))
  ELSE IF IsInf(x) THEN Signed(Sgn(x) * Sgn(y))
  ELSE Fin[x.n * y.d, x.s * y.d, x.r, x.d * y.n]

fDiv[x \in Float, y \in Float] == TrueDivide(x, y)

\* np.sqrt of a float64 value; a finite argument is rational
\* (the code only ever takes the root of the discriminant)
fSqrt[x \in Float] ==
  IF IsErr(x) \/ x.k = "nan" THEN x
  ELSE IF x.k = "inf" THEN PInf
  ELSE IF Sgn(x) < 0 THEN NaN
  ELSE Fin[0, 1, x.n * x.d, x.d]

\* x < y; False whenever an operand is nan
fLess[x \in Float, y \in Float] ==
  IF x.k = "nan" \/ y.k = "nan" THEN FALSE
  ELSE IF x.k = "inf" \/ y.k = "-inf" THEN FALSE
  ELSE IF x.k = "-inf" \/ y.k = "inf" THEN TRUE
  ELSE Sgn(fSub[x, y]) < 0

\* x == y on float64 values; False whenever an operand is nan
fEq[x \in Float, y \in Float] ==
  IF IsErr(x) \/ IsErr(y) THEN FALSE
  ELSE IF x.k = "nan" \/ y.k = "nan" THEN FALSE
  ELSE IF IsInf(x) \/ IsInf(y) THEN x.k = y.k
  ELSE Sgn(fSub[x, y]) = 0

fLeq[x \in Float, y \in Float] == fLess[x, y] \/ fEq[x, y]

\* -------------------------------------------------------- numpy values
\* a 3-component ndarray, or a numpy scalar (what indexing an ndarray gives)
Vec(x, y, z) == [shape |-> "vector", v |-> <<x, y, z>>]

Scalar(x) == [shape |-> "scalar", v |-> <<x>>]

\* component i (1..3) of an operand after broadcasting
Array == [shape : {"vector", "scalar"}, v : Seq(Float)]

At(x, i) == IF x.shape = "vector" THEN x.v[i] ELSE x.v[1]

\* a unary operation applied to every component
Map1(f, x) ==
  IF x.shape = "vector"
  THEN Vec(f[x.v[1]], f[x.v[2]], f[x.v[3]])
  ELSE Scalar(f[x.v[1]])

\* a binary operation applied component by component after broadcasting
Map2(f, x, y) ==
  IF x.shape = "vector" \/ y.shape = "vector"
  THEN Vec(f[At(x, 1), At(y, 1)], f[At(x, 2), At(y, 2)],
           f[At(x, 3), At(y, 3)])
  ELSE Scalar(f[x.v[1], y.v[1]])

npNeg[x \in Array] == Map1(fNeg, x)

npAdd[x \in Array, y \in Array] == Map2(fAdd, x, y)

npSub[x \in Array, y \in Array] == Map2(fSub, x, y)

npMul[x \in Array, y \in Array] == Map2(fMul, x, y)

npDiv[x \in Array, y \in Array] == Map2(fDiv, x, y)

npSqrt[x \in Array] == Map1(fSqrt, x)

\* x[i] with Python's 0-based index: a numpy scalar cannot be indexed
Index(x, i) ==
  IF x.shape = "vector" THEN Scalar(x.v[i + 1]) ELSE Scalar(IndexError)

\* the call that produced x raised an exception
Raised(x) == \E i \in DOMAIN x.v : IsErr(x.v[i])

IntVec(x, y, z) == Vec(Num(x), Num(y), Num(z))

\* --------------------------------------------------------- class Object
Object(pos, vel, collision_condition, g) ==
  [pos |-> pos, vel |-> vel, collision_condition |-> collision_condition,
   g |-> g]

get_a(self) == npMul[Scalar(Fin[1, 0, 0, 2]), self.g]

get_b(self) == self.vel

\* the difference taken the other way round
get_c_swapped(self) == npSub[self.collision_condition, self.pos]

get_c(self) == npSub[self.pos, self.collision_condition]

get_eq(self) == <<get_a(self), get_b(self), get_c(self)>>

get_eq_z(self) ==
  <<Index(get_a(self), 2), Index(get_b(self), 2), Index(get_c(self), 2)>>

\* -------------------------------------------------- class SecondOrderEq
SecondOrderEq(a, b, c) == [a |-> a, b |-> b, c |-> c]

discriminant(self) ==
  npSub[npMul[self.b, self.b],
        npMul[npMul[Scalar(Num(4)), self.a], self.c]]

\* the plus and minus branches exchanged
roots_swapped(self) ==
  LET r1 == npDiv[npAdd[npNeg[self.b], npSqrt[discriminant(self)]],
                  npMul[Scalar(Num(2)), self.a]]
      r2 == npDiv[npSub[npNeg[self.b], npSqrt[discriminant(self)]],
                  npMul[Scalar(Num(2)), self.a]]
  IN <<r1, r2>>

roots(self) ==
  LET r1 == npDiv[npSub[npNeg[self.b], npSqrt[discriminant(self)]],
                  npMul[Scalar(Num(2)), self.a]]
      r2 == npDiv[npAdd[npNeg[self.b], npSqrt[discriminant(self)]],
                  npMul[Scalar(Num(2)), self.a]]
  IN <<r1, r2>>

\* the test on r1 reversed: r2 is selected when r1 > 0
get_time_contact_ground_reversed(self) ==
  LET rs == roots(self)
      r1 == Index(rs[1], 2)
      r2 == Index(rs[2], 2)
  IN IF Raised(r1) THEN r1
     ELSE IF Raised(r2) THEN r2
     ELSE IF fLess[Num(0), r1.v[1]] THEN r2
     ELSE r1

\* the test on r1 made non-strict: r2 is selected when r1 <= 0
get_time_contact_ground_nonstrict(self) ==
  LET rs == roots(self)
      r1 == Index(rs[1], 2)
      r2 == Index(rs[2], 2)
  IN IF Raised(r1) THEN r1
     ELSE IF Raised(r2) THEN r2
     ELSE IF fLeq[r1.v[1], Num(0)] THEN r2
     ELSE r1

get_time_contact_ground(self) ==
  LET rs == roots(self)
      r1 == Index(rs[1], 2)
      r2 == Index(rs[2], 2)
  IN IF Raised(r1) THEN r1
     ELSE IF Raised(r2) THEN r2
     ELSE IF fLess[r1.v[1], Num(0)] THEN r2
     ELSE r1

get_distance_at_contact_ground(self) ==
  LET t == get_time_contact_ground(self)
  IN npAdd[npAdd[npMul[self.a, npMul[t, t]], npMul[self.b, t]], self.c]

\* ---------------------------------------------------------------- state
\* obj : the Object instance; eq : the SecondOrderEq instances built from it
\* (none or one); ret : the last call made and the tuple of values it returned
Objects ==
  { Object(IntVec(1, 0, pz), IntVec(1, 0, vz), IntVec(0, 0, cz),
           IntVec(0, 0, gz)) :
      pz \in 0..MaxZ, cz \in 0..MaxZ,
      vz \in -MaxV..MaxV, gz \in -MaxG..MaxG }

Init ==
  /\ obj \in Objects
  /\ eq = <<>>
  /\ ret = [op |-> "Object", val |-> <<>>]

GetA ==
  /\ ret' = [op |-> "get_a", val |-> <<get_a(obj)>>]
  /\ UNCHANGED <<obj, eq>>

GetB ==
  /\ ret' = [op |-> "get_b", val |-> <<get_b(obj)>>]
  /\ UNCHANGED <<obj, eq>>

\* get_c computing the difference in place (self.pos -= ...)
GetC_inplace ==
  /\ obj' = [obj EXCEPT !.pos = get_c(obj)]
  /\ ret' = [op |-> "get_c", val |-> <<get_c(obj)>>]
  /\ UNCHANGED eq

GetC ==
  /\ ret' = [op |-> "get_c", val |-> <<get_c(obj)>>]
  /\ UNCHANGED <<obj, eq>>

GetEq ==
  /\ ret' = [op |-> "get_eq", val |-> get_eq(obj)]
  /\ UNCHANGED <<obj, eq>>

GetEqZ ==
  /\ ret' = [op |-> "get_eq_z", val |-> get_eq_z(obj)]
  /\ UNCHANGED <<obj, eq>>

\* SecondOrderEq(*obj.get_eq()) or SecondOrderEq(*obj.get_eq_z())
NewSecondOrderEq ==
  /\ eq = <<>>
  /\ \E co \in {get_eq(obj), get_eq_z(obj)} :
       eq' = <<SecondOrderEq(co[1], co[2], co[3])>>
  /\ ret' = [op |-> "SecondOrderEq", val |-> <<>>]
  /\ UNCHANGED obj

Discriminant ==
  /\ eq # <<>>
  /\ ret' = [op |-> "discriminant", val |-> <<discriminant(eq[1])>>]
  /\ UNCHANGED <<obj, eq>>

Roots ==
  /\ eq # <<>>
  /\ ret' = [op |-> "roots", val |-> roots(eq[1])]
  /\ UNCHANGED <<obj, eq>>

GetTimeContactGround ==
  /\ eq # <<>>
  /\ ret' = [op |-> "get_time_contact_ground",
             val |-> <<get_time_contact_ground(eq[1])>>]
  /\ UNCHANGED <<obj, eq>>

GetDistanceAtContactGround ==
  /\ eq # <<>>
  /\ ret' = [op |-> "get_distance_at_contact_ground",
             val |-> <<get_distance_at_contact_ground(eq[1])>>]
  /\ UNCHANGED <<obj, eq>>

Next ==
  \/ GetA
  \/ GetB
  \/ GetC
  \/ GetEq
  \/ GetEqZ
  \/ NewSecondOrderEq
  \/ Discriminant
  \/ Roots
  \/ GetTimeContactGround
  \/ GetDistanceAtContactGround

Spec == Init /\ [][Next]_vars

\* ------------------------------------------------------------ properties
\* the instance was built from the vector triple of get_eq()
VectorEq == eq # <<>> /\ eq[1].a.shape = "vector"

\* the instance was built from the scalar triple of get_eq_z()
ScalarEq == eq # <<>> /\ eq[1].a.shape = "scalar"

\* integer vertical inputs of the object
PosZ == obj.pos.v[3].n

VelZ == obj.vel.v[3].n

BoundZ == obj.collision_condition.v[3].n

GravZ == obj.g.v[3].n

\* vertical discriminant b^2 - 4ac = VelZ^2 - 2*GravZ*(PosZ - BoundZ)
DiscZ == VelZ * VelZ - 2 * GravZ * (PosZ - BoundZ)

\* the two vertical roots of the instance
Root1Z == roots(eq[1])[1].v[3]

Root2Z == roots(eq[1])[2].v[3]

NonNeg(x) == IsFin(x) /\ Sgn(x) >= 0

Negative(x) == x.k = "-inf" \/ (IsFin(x) /\ Sgn(x) < 0)

\* the scalar returned by the last call
RetScalar == ret.val[1].v[1]

C2_EarliestNonNegativeRoot ==
  (/\ ret.op = "get_time_contact_ground"
   /\ VectorEq
   /\ GravZ < 0
   /\ DiscZ >= 0
   /\ (NonNeg(Root1Z) \/ NonNeg(Root2Z)))
  => /\ NonNeg(RetScalar)
     /\ \A r \in {Root1Z, Root2Z} : NonNeg(r) => fLeq[RetScalar, r]

\* C2 amended: with a < 0 and at least one real root >= 0, the time
\* returned by get_time_contact_ground() is the largest real root.
C2_LargestRoot ==
  (/\ ret.op = "get_time_contact_ground"
   /\ VectorEq
   /\ GravZ < 0
   /\ DiscZ >= 0
   /\ (NonNeg(Root1Z) \/ NonNeg(Root2Z)))
  => /\ NonNeg(RetScalar)
     /\ \E r \in {Root1Z, Root2Z} : fEq[RetScalar, r]
     /\ \A r \in {Root1Z, Root2Z} : fLeq[r, RetScalar]

\* both vertical roots are non-negative and distinct, and the time returned
\* is the later one
C2_Witness ==
  /\ ret.op = "get_time_contact_ground"
  /\ VectorEq
  /\ GravZ < 0
  /\ DiscZ > 0
  /\ NonNeg(Root1Z)
  /\ NonNeg(Root2Z)
  /\ fLess[Root2Z, RetScalar]

\* C3: with downward gravity and the object above the boundary, whenever
\* the vertical quadratic has a non-negative real root the time returned by
\* get_time_contact_ground() is >= 0.
C3_TimeNonNegative ==
  (/\ ret.op = "get_time_contact_ground"
   /\ VectorEq
   /\ GravZ < 0
   /\ PosZ > BoundZ
   /\ (NonNeg(Root1Z) \/ NonNeg(Root2Z)))
  => NonNeg(RetScalar)

\* an object above the boundary with a vertical velocity lands at t > 0
C3_Witness ==
  /\ ret.op = "get_time_contact_ground"
  /\ VectorEq
  /\ GravZ < 0
  /\ PosZ > BoundZ
  /\ VelZ # 0
  /\ (NonNeg(Root1Z) \/ NonNeg(Root2Z))
  /\ IsFin(RetScalar)
  /\ Sgn(RetScalar) > 0

\* C4: on every axis with a # 0 and a discriminant >= 0, a < 0 included,
\* the pair returned by roots() satisfies r1 <= r2.
C4_RootsAscending ==
  (ret.op = "roots")
  => \A i \in DOMAIN eq[1].a.v :
       (Sgn(eq[1].a.v[i]) # 0 /\ NonNeg(discriminant(eq[1]).v[i]))
       => fLeq[ret.val[1].v[i], ret.val[2].v[i]]

\* C4 amended: on every axis with a discriminant >= 0, roots() returns
\* r1 <= r2 when a > 0 and r1 >= r2 when a < 0.
C4_RootsOrderedBySignOfA ==
  (ret.op = "roots")
  => \A i \in DOMAIN eq[1].a.v :
       NonNeg(discriminant(eq[1]).v[i])
       => /\ Sgn(eq[1].a.v[i]) > 0 => fLeq[ret.val[1].v[i], ret.val[2].v[i]]
          /\ Sgn(eq[1].a.v[i]) < 0 => fLeq[ret.val[2].v[i], ret.val[1].v[i]]

\* downward gravity, two distinct real vertical roots: r1 is the larger
C4_Witness ==
  /\ ret.op = "roots"
  /\ VectorEq
  /\ GravZ < 0
  /\ DiscZ > 0
  /\ fLess[ret.val[2].v[3], ret.val[1].v[3]]

\* C5: thrown upward from the boundary height (pos.z = boundary.z, v > 0,
\* gravity (0,0,-g), g > 0), get_time_contact_ground() returns 2*v/g.
C5_ThrownUpward ==
  (/\ ret.op = "get_time_contact_ground"
   /\ VectorEq
   /\ PosZ = BoundZ
   /\ VelZ > 0
   /\ GravZ < 0)
  => fEq[RetScalar, Fin[2 * VelZ, 0, 0, -GravZ]]

\* v = 2, g = 1 at the boundary height: the time returned is 4, not 0
C5_Witness ==
  /\ ret.op = "get_time_contact_ground"
  /\ VectorEq
  /\ PosZ = BoundZ
  /\ VelZ = 2
  /\ GravZ = -1
  /\ RetScalar = Num(4)

\* C6: with vector coefficients whose vertical a is 0 or whose vertical
\* discriminant is negative, roots(), get_time_contact_ground() and
\* get_distance_at_contact_ground() raise nothing and the affected results
\* are nan or +/-inf; the time is nan when the vertical r1 is nan.
C6_DegenerateNeverRaises ==
  LET special == {"nan", "inf", "-inf"}
      degenerate(i) == \/ Sgn(eq[1].a.v[i]) = 0
                       \/ Sgn(discriminant(eq[1]).v[i]) < 0
  IN (VectorEq /\ degenerate(3))
     => /\ ret.op = "roots"
           => \A j \in 1..2 :
                /\ ~Raised(ret.val[j])
                /\ \A i \in 1..3 : degenerate(i) => ret.val[j].v[i].k \in special
        /\ ret.op = "get_time_contact_ground"
           => /\ ~Raised(ret.val[1])
              /\ RetScalar.k \in special
              /\ Root1Z.k = "nan" => RetScalar.k = "nan"
        /\ ret.op = "get_distance_at_contact_ground"
           => /\ ~Raised(ret.val[1])
              /\ ret.val[1].v[3].k \in special

\* no gravity: the time of contact is nan and nothing was raised
C6_Witness ==
  /\ ret.op = "get_time_contact_ground"
  /\ VectorEq
  /\ GravZ = 0
  /\ PosZ > BoundZ
  /\ RetScalar.k = "nan"

\* C7: built from the scalar triple of get_eq_z(), get_time_contact_ground()
\* and get_distance_at_contact_ground() return a scalar without an error.
C7_ScalarShapeSupported ==
  (ScalarEq /\ ret.op \in {"get_time_contact_ground",
                           "get_distance_at_contact_ground"})
  => /\ ~Raised(ret.val[1])
     /\ ret.val[1].shape = "scalar"

\* C8: get_eq() returns (0.5*g, vel, pos - collision_condition) component
\* by component and get_eq_z() the index-2 components of those vectors.
C8_CoefficientMapping ==
  LET a(i) == Fin[obj.g.v[i].n, 0, 0, 2]
      b(i) == Num(obj.vel.v[i].n)
      c(i) == Num(obj.pos.v[i].n - obj.collision_condition.v[i].n)
  IN /\ ret.op = "get_eq"
        => ret.val = <<Vec(a(1), a(2), a(3)), Vec(b(1), b(2), b(3)),
                       Vec(c(1), c(2), c(3))>>
     /\ ret.op = "get_eq_z"
        => ret.val = <<Scalar(a(3)), Scalar(b(3)), Scalar(c(3))>>

\* get_eq_z() of an object with gravity -1, velocity 2, one below the boundary
C8_Witness ==
  /\ ret.op = "get_eq_z"
  /\ GravZ = -1
  /\ BoundZ = PosZ + 1
  /\ ret.val = <<Scalar(Fin[-1, 0, 0, 2]), Scalar(Num(2)), Scalar(Num(-1))>>

\* C9: no call changes a stored attribute of the Object or of the
\* SecondOrderEq, and a call repeated on the same instance returns the
\* same values.
C9_NoMutation ==
  [][/\ obj' = obj
     /\ eq # <<>> => eq' = eq
     /\ ret'.op = ret.op => ret'.val = ret.val]_vars

\* a solver method has run on an instance built from a moved boundary
C9_Witness ==
  /\ ret.op = "get_distance_at_contact_ground"
  /\ VectorEq
  /\ BoundZ > 0
  /\ eq[1] = SecondOrderEq(get_a(obj), get_b(obj), get_c(obj))

\* C10: get_time_contact_ground() returns r2[2] exactly when r1[2] < 0 and
\* r1[2] otherwise; with two negative real vertical roots it returns the
\* negative r2[2], not nan.
C10_RootSelectionPolicy ==
  (ret.op = "get_time_contact_ground" /\ VectorEq)
  => /\ Negative(Root1Z) => RetScalar = Root2Z
     /\ ~Negative(Root1Z) => RetScalar = Root1Z
     /\ (IsFin(Root1Z) /\ IsFin(Root2Z) /\ Negative(Root1Z) /\ Negative(Root2Z))
        => (IsFin(RetScalar) /\ Negative(RetScalar))

\* both vertical roots are real and negative and the negative r2 is returned
C10_Witness ==
  /\ ret.op = "get_time_contact_ground"
  /\ VectorEq
  /\ IsFin(Root1Z) /\ Negative(Root1Z)
  /\ IsFin(Root2Z) /\ Negative(Root2Z)
  /\ RetScalar = Root2Z

====
